---- MODULE Spec2Model ----
(***************************************************************************)
(* Model of the catacurses facade declared in src/cursesdef.h: the window *)
(* value wrapper, the scoped owner WINDOW_PTR (a std::unique_ptr with the  *)
(* delwin_functor deleter), window creation and destruction, and the       *)
(* drawing / colour-pair operations.                                       *)
(*                                                                         *)
(* A handle of the model is the identity of one backend window object:     *)
(* handle h names the h-th window the backend ever created.                *)
(***************************************************************************)
EXTENDS Integers, Sequences, FiniteSets, TLC

\* ---------------------------------------------------------------- bounds
MaxHandles == 2     \* windows the backend creates in one run
NumOwners == 2      \* WINDOW_PTR variables
MaxRaw == 1         \* direct werase/wrefresh/delwin calls in one run
TermLines == 3      \* rows of the display
TermCols == 8       \* columns of the display
MaxDrawOps == 2     \* writes into the drawn window in one run

\* ------------------------------------------------------------- constants
NullPtr == 0        \* nullptr
Handles == 1..MaxHandles
Owners == 1..NumOwners

VARIABLES
    iface,        \* "uninit", "ready", "failed" (init_interface threw)
    wstate,       \* handle -> "unalloc" | "live" | "destroyed"
    geom,         \* handle -> backend window record [y, x, height, width]
    req,          \* handle -> the <<nlines, ncols, begin_y, begin_x>> it was requested with
    owner,        \* WINDOW_PTR variable -> [inscope, ptr]
    pending,      \* old_p of a reset() that has stored the new pointer already
    trace,        \* handle -> backend calls observed on that window, in order
    runs,         \* handle -> number of delwin_functor invocations on it
    ub,           \* TRUE once a backend call was made on a dangling handle: what the
                  \* program does from there on is undefined and is not modelled
    disciplined,  \* TRUE while every owner was only given null or a live unowned handle
    ret,          \* value the latest call returned (NoValue: it returns none)
    win,          \* the drawn window: [cury, curx, attr, cells]
    pairs,        \* colour pair table: pair id -> <<foreground, background>>
    edge,         \* what the backend does at the right edge: "wrap" or "clip"
    nops,         \* writes made into the drawn window
    lastReg,      \* pair id -> colours of the latest init_pair call for it (<<>>: none)
    lastAttr      \* pair id of the latest wattron call, -1 after wattroff or before any

lifeVars == <<iface, wstate, geom, req, owner, pending, trace, runs, ub, disciplined, ret>>

drawVars == <<win, pairs, edge, nops, lastReg, lastAttr>>

vars == <<lifeVars, drawVars>>

\* --------------------------------------------------- class window (value)
\* variant: native_window left unset, so that it reads as some address
window_default_unset == NullPtr + 1

\* window(): native_window( nullptr )
window_default == NullPtr

\* window( T *ptr ): native_window( static_cast<WINDOW *>( ptr ) )
window_ctor(ptr) == ptr

\* get() / operator WINDOW *()
window_get(w) == w

\* variant: the wrapper destroys the window it wraps
window_dtor_delwin(ws, tr, w) ==
    IF w # NullPtr /\ ws[w] = "live"
    THEN [ws |-> [ws EXCEPT ![w] = "destroyed"], tr |-> [tr EXCEPT ![w] = Append(@, "delwin")]]
    ELSE [ws |-> ws, tr |-> tr]

\* ~window() { }: the wrapped window is left as it is
window_dtor(ws, tr, w) == [ws |-> ws, tr |-> tr]

\* --------------------------------------------------------- backend windows
newwin_ok(nlines, ncols, begin_y, begin_x) ==
    /\ nlines >= 1 /\ ncols >= 1
    /\ begin_y >= 0 /\ begin_x >= 0
    /\ begin_y + nlines <= TermLines
    /\ begin_x + ncols <= TermCols

NoGeom == [y |-> 0, x |-> 0, height |-> 0, width |-> 0]

NoArgs == <<0, 0, 0, 0>>

\* variant: lines and columns taken for each other
newwin_rec_swapped(nlines, ncols, begin_y, begin_x) ==
    [y |-> begin_y, x |-> begin_x, height |-> ncols, width |-> nlines]

newwin_rec(nlines, ncols, begin_y, begin_x) ==
    [y |-> begin_y, x |-> begin_x, height |-> nlines, width |-> ncols]

getmaxy(g, w) == g[w].height

getmaxx(g, w) == g[w].width

getbegy(g, w) == g[w].y

getbegx(g, w) == g[w].x

FreeHandles == {h \in Handles : wstate[h] = "unalloc"}

NextHandle == CHOOSE h \in FreeHandles : \A k \in FreeHandles : h <= k

\* one backend call on window h: logged, and it ends the window if it is delwin
backend_call(ws, tr, h, op) ==
    [ws |-> IF op = "delwin" THEN [ws EXCEPT ![h] = "destroyed"] ELSE ws,
     tr |-> [tr EXCEPT ![h] = Append(@, op)]]

\* void delwin_functor::operator()( WINDOW *w ): werase, wrefresh, delwin
delwin_functor(ws, tr, w) ==
    LET a == backend_call(ws, tr, w, "werase")
        b == backend_call(a.ws, a.tr, w, "wrefresh")
    IN  backend_call(b.ws, b.tr, w, "delwin")

\* ---------------------------------------------------------------- helpers
Holders(h) == {o \in Owners : owner[o].inscope /\ owner[o].ptr = h}

Ready == iface = "ready" /\ ~ub /\ pending = NullPtr

NoValue == NullPtr

RECURSIVE SumUpTo(_, _)
SumUpTo(f, n) == IF n = 0 THEN 0 ELSE f[n] + SumUpTo(f, n - 1)

\* backend calls made so far that no deleter made
RawCalls == SumUpTo([h \in Handles |-> Len(trace[h]) - 3 * runs[h]], MaxHandles)

\* a value handed to an owner keeps the discipline if it is null, or live and unowned
Fresh(h) == IF h = NullPtr THEN TRUE ELSE wstate[h] = "live" /\ Holders(h) = {}

\* ------------------------------- WINDOW_PTR = std::unique_ptr<WINDOW, delwin_functor>
\* Each operation yields the owner afterwards (p), the value it returns (ret)
\* and the pointer it passes to the deleter (del, NullPtr: deleter not called).
NoOwner == [inscope |-> FALSE, ptr |-> NullPtr]

unique_ptr_ctor(h) == [inscope |-> TRUE, ptr |-> h]

\* variant: the owner forgets its window when it leaves the scope
unique_ptr_dtor_leak(p) == [p |-> NoOwner, ret |-> NullPtr, del |-> NullPtr]

unique_ptr_dtor(p) == [p |-> NoOwner, ret |-> NullPtr, del |-> p.ptr]

\* variant: release() deletes what it hands back
unique_ptr_release_deletes(p) == [p |-> [p EXCEPT !.ptr = NullPtr], ret |-> p.ptr, del |-> p.ptr]

unique_ptr_release(p) == [p |-> [p EXCEPT !.ptr = NullPtr], ret |-> p.ptr, del |-> NullPtr]

\* variant: reset() drops the old pointer without deleting it
unique_ptr_reset_leak(p, h) == [p |-> [p EXCEPT !.ptr = h], ret |-> NullPtr, del |-> NullPtr]

\* reset: old_p = ptr; ptr = h; if( old_p ) get_deleter()( old_p )
unique_ptr_reset(p, h) == [p |-> [p EXCEPT !.ptr = h], ret |-> NullPtr, del |-> p.ptr]

\* variant: the source keeps its pointer (a copy)
unique_ptr_move_copy(src) ==
    [p |-> unique_ptr_ctor(src.ptr), src |-> src, del |-> NullPtr]

\* variant: the source is torn down as it is moved from
unique_ptr_move_deletes(src) ==
    [p |-> unique_ptr_ctor(src.ptr), src |-> [src EXCEPT !.ptr = NullPtr], del |-> src.ptr]

\* move construction: the new owner takes src.release()
unique_ptr_move(src) ==
    [p |-> unique_ptr_ctor(unique_ptr_release(src).ret),
     src |-> unique_ptr_release(src).p,
     del |-> unique_ptr_release(src).del]

\* the deleter runs on h (h # NullPtr): three backend calls, one more run counted
RunDeleter(h) ==
    LET r == delwin_functor(wstate, trace, h)
        bad == wstate[h] # "live"
    IN  /\ wstate' = r.ws
        /\ trace' = r.tr
        /\ runs' = [runs EXCEPT ![h] = @ + 1]
        /\ ub' = (ub \/ bad)
        /\ UNCHANGED iface

NoDeleter == UNCHANGED <<wstate, trace, runs, ub, iface>>

MaybeDelete(h) == IF h = NullPtr THEN NoDeleter ELSE RunDeleter(h)

\* ----------------------------------------------------------------- actions
\* void init_interface(): returns normally or throws
init_interface ==
    /\ iface = "uninit"
    /\ iface' \in {"ready", "failed"}
    /\ ret' = NoValue
    /\ UNCHANGED <<wstate, geom, req, owner, pending, trace, runs, ub, disciplined>>
    /\ UNCHANGED drawVars

\* newwin( nlines, ncols, begin_y, begin_x ); the caller keeps the pointer returned
newwin(nlines, ncols, begin_y, begin_x) ==
    /\ Ready
    /\ IF newwin_ok(nlines, ncols, begin_y, begin_x)
       THEN /\ FreeHandles # {}
            /\ LET h == NextHandle IN
                 /\ wstate' = [wstate EXCEPT ![h] = "live"]
                 /\ geom' = [geom EXCEPT ![h] = newwin_rec(nlines, ncols, begin_y, begin_x)]
                 /\ req' = [req EXCEPT ![h] = <<nlines, ncols, begin_y, begin_x>>]
                 /\ ret' = window_get(window_ctor(h))
       ELSE /\ ret' = window_get(window_default)
            /\ UNCHANGED <<wstate, geom, req>>
    /\ UNCHANGED <<iface, owner, pending, trace, runs, ub, disciplined>>
    /\ UNCHANGED drawVars

\* delwin( h ), werase( h ), wrefresh( h ) on a live window: the pointer is wrapped
\* in a window for the call, and the wrapper is dropped after it
raw_call(h, op) ==
    /\ Ready
    /\ wstate[h] = "live"
    /\ RawCalls < MaxRaw
    /\ LET w == window_ctor(h)
           r == backend_call(wstate, trace, window_get(w), op)
           d == window_dtor(r.ws, r.tr, w)
       IN  /\ wstate' = d.ws
           /\ trace' = d.tr
    /\ ret' = NoValue
    /\ UNCHANGED <<iface, geom, req, owner, pending, runs, ub, disciplined>>
    /\ UNCHANGED drawVars

delwin(h) == raw_call(h, "delwin")

werase(h) == raw_call(h, "werase")

wrefresh(h) == raw_call(h, "wrefresh")

\* getmaxy( h ), getmaxx( h ), getbegy( h ), getbegx( h ) on a live window
geometry_query(h, q) ==
    /\ Ready
    /\ wstate[h] = "live"
    /\ LET w == window_ctor(h)
           d == window_dtor(wstate, trace, w)
       IN  /\ ret' = CASE q = "getmaxy" -> getmaxy(geom, window_get(w))
                       [] q = "getmaxx" -> getmaxx(geom, window_get(w))
                       [] q = "getbegy" -> getbegy(geom, window_get(w))
                       [] OTHER -> getbegx(geom, window_get(w))
           /\ wstate' = d.ws
           /\ trace' = d.tr
    /\ UNCHANGED <<iface, geom, req, owner, pending, runs, ub, disciplined>>
    /\ UNCHANGED drawVars

\* window a( h ); window b = a; the pointer is read back from b, then both are dropped
window_copy(h) ==
    /\ Ready
    /\ wstate[h] = "live"
    /\ LET a == window_ctor(h)
           b == window_ctor(window_get(a))
           db == window_dtor(wstate, trace, b)
           da == window_dtor(db.ws, db.tr, a)
       IN  /\ ret' = window_get(b)
           /\ wstate' = da.ws
           /\ trace' = da.tr
    /\ UNCHANGED <<iface, geom, req, owner, pending, runs, ub, disciplined>>
    /\ UNCHANGED drawVars

\* pointers a caller can hand to an owner: null or one newwin returned, also
\* one whose window is gone by now
CanGive(h) == IF h = NullPtr THEN TRUE ELSE wstate[h] # "unalloc"

\* WINDOW_PTR o( h )
ptr_construct(o, h) ==
    /\ Ready
    /\ ~owner[o].inscope
    /\ CanGive(h)
    /\ owner' = [owner EXCEPT ![o] = unique_ptr_ctor(h)]
    /\ disciplined' = (disciplined /\ Fresh(h))
    /\ ret' = NoValue
    /\ UNCHANGED <<iface, wstate, geom, req, pending, trace, runs, ub>>
    /\ UNCHANGED drawVars

\* o leaves its scope: ~unique_ptr
ptr_scope_exit(o) ==
    /\ Ready
    /\ owner[o].inscope
    /\ LET r == unique_ptr_dtor(owner[o]) IN
         /\ owner' = [owner EXCEPT ![o] = r.p]
         /\ MaybeDelete(r.del)
    /\ ret' = NoValue
    /\ UNCHANGED <<geom, req, pending, disciplined>>
    /\ UNCHANGED drawVars

\* o.release()
ptr_release(o) ==
    /\ Ready
    /\ owner[o].inscope
    /\ LET r == unique_ptr_release(owner[o]) IN
         /\ owner' = [owner EXCEPT ![o] = r.p]
         /\ ret' = r.ret
         /\ MaybeDelete(r.del)
    /\ UNCHANGED <<geom, req, pending, disciplined>>
    /\ UNCHANGED drawVars

\* o.reset( h ), up to the point where the new pointer is stored
ptr_reset(o, h) ==
    /\ Ready
    /\ owner[o].inscope
    /\ CanGive(h)
    /\ LET r == unique_ptr_reset(owner[o], h) IN
         /\ owner' = [owner EXCEPT ![o] = r.p]
         /\ pending' = r.del
    /\ disciplined' = (disciplined /\ Fresh(h))
    /\ ret' = NoValue
    /\ UNCHANGED <<iface, wstate, geom, req, trace, runs, ub>>
    /\ UNCHANGED drawVars

\* the rest of reset(): the deleter runs on old_p
ptr_reset_finish ==
    /\ iface = "ready" /\ ~ub
    /\ pending # NullPtr
    /\ RunDeleter(pending)
    /\ pending' = NullPtr
    /\ ret' = NoValue
    /\ UNCHANGED <<geom, req, owner, disciplined>>
    /\ UNCHANGED drawVars

\* WINDOW_PTR dst( std::move( src ) )
ptr_move_construct(src, dst) ==
    /\ Ready
    /\ src # dst
    /\ owner[src].inscope
    /\ ~owner[dst].inscope
    /\ LET r == unique_ptr_move(owner[src]) IN
         /\ owner' = [owner EXCEPT ![src] = r.src, ![dst] = r.p]
         /\ MaybeDelete(r.del)
    /\ ret' = NoValue
    /\ UNCHANGED <<geom, req, pending, disciplined>>
    /\ UNCHANGED drawVars

\* dst = std::move( src ): dst.reset( src.release() )
ptr_move_assign(src, dst) ==
    /\ Ready
    /\ src # dst
    /\ owner[src].inscope
    /\ owner[dst].inscope
    /\ LET rel == unique_ptr_release(owner[src])
           r == unique_ptr_reset(owner[dst], rel.ret)
       IN  /\ owner' = [owner EXCEPT ![src] = rel.p, ![dst] = r.p]
           /\ pending' = r.del
    /\ ret' = NoValue
    /\ UNCHANGED <<iface, wstate, geom, req, trace, runs, ub, disciplined>>
    /\ UNCHANGED drawVars

\* ------------------------------------------------------- enum base_color
black == 0
red == 1
green == 2
yellow == 3
blue == 4
magenta == 5
cyan == 6
white == 7

\* ------------------------------------------------ string_format (printf)
DigitChars == <<"0", "1", "2", "3", "4", "5", "6", "7", "8", "9">>

RECURSIVE utoa(_)
utoa(n) == IF n < 10 THEN <<DigitChars[n + 1]>>
           ELSE utoa(n \div 10) \o <<DigitChars[(n % 10) + 1]>>

itoa(n) == IF n < 0 THEN <<"-">> \o utoa(-n) ELSE utoa(n)

\* fmt is a sequence of characters and conversion specifications "%d", "%%";
\* each "%d" takes the next argument
RECURSIVE string_format(_, _)
string_format(fmt, args) ==
    IF fmt = <<>> THEN <<>>
    ELSE IF Head(fmt) = "%d" THEN itoa(Head(args)) \o string_format(Tail(fmt), Tail(args))
    ELSE IF Head(fmt) = "%%" THEN <<"%">> \o string_format(Tail(fmt), args)
    ELSE <<Head(fmt)>> \o string_format(Tail(fmt), args)

\* ------------------------------------------------------- backend drawing
WinLines == TermLines
WinCols == TermCols
DefaultPair == <<white, black>>
PairIds == {1, 3}

BlankCell == [ch |-> " ", fg |-> DefaultPair[1], bg |-> DefaultPair[2]]

BlankWin ==
    [cury |-> 0, curx |-> 0, attr |-> 0,
     cells |-> [pos \in (0..(WinLines - 1)) \X (0..(WinCols - 1)) |-> BlankCell]]

\* variant: a pair that was registered keeps its first colours
init_pair_op_once(tbl, pair, f, b) ==
    IF tbl[pair] = DefaultPair THEN [tbl EXCEPT ![pair] = <<f, b>>] ELSE tbl

init_pair_op(tbl, pair, f, b) == [tbl EXCEPT ![pair] = <<f, b>>]

wmove_op(w, y, x) == [w EXCEPT !.cury = y, !.curx = x]

wattron_op(w, pair) == [w EXCEPT !.attr = pair]

wattroff_op(w) == [w EXCEPT !.attr = 0]

\* the cursor after one character was put at (w.cury, w.curx)
advance(w, mode) ==
    IF w.curx + 1 < WinCols THEN [w EXCEPT !.curx = @ + 1]
    ELSE IF mode = "wrap" /\ w.cury + 1 < WinLines THEN [w EXCEPT !.cury = @ + 1, !.curx = 0]
    ELSE w

waddch_op(w, ch, tbl, mode) ==
    advance([w EXCEPT !.cells[<<w.cury, w.curx>>] =
                 [ch |-> ch, fg |-> tbl[w.attr][1], bg |-> tbl[w.attr][2]]], mode)

RECURSIVE wprintw_op(_, _, _, _)
wprintw_op(w, text, tbl, mode) ==
    IF text = <<>> THEN w
    ELSE wprintw_op(waddch_op(w, Head(text), tbl, mode), Tail(text), tbl, mode)

\* void mvwprintw( const window &win, int y, int x, const std::string &text )
mvwprintw_op(w, y, x, text, tbl, mode) == wprintw_op(wmove_op(w, y, x), text, tbl, mode)

\* variant: the format string is printed as it is
mvwprintw_fmt_raw(w, y, x, fmt, args, tbl, mode) == mvwprintw_op(w, y, x, fmt, tbl, mode)

\* template mvwprintw( win, y, x, fmt, args... )
mvwprintw_fmt(w, y, x, fmt, args, tbl, mode) ==
    mvwprintw_op(w, y, x, string_format(fmt, args), tbl, mode)


\* --------------------------------------------------------- drawing actions
DrawReady == iface = "ready" /\ ~ub /\ wstate[1] = "live"

CanWrite == DrawReady /\ nops < MaxDrawOps

init_pair(pair, f, b) ==
    /\ DrawReady
    /\ pairs' = init_pair_op(pairs, pair, f, b)
    /\ lastReg' = [lastReg EXCEPT ![pair] = <<f, b>>]
    /\ UNCHANGED <<lifeVars, win, edge, nops, lastAttr>>

wmove(y, x) ==
    /\ DrawReady
    /\ win' = wmove_op(win, y, x)
    /\ UNCHANGED <<lifeVars, pairs, edge, nops, lastReg, lastAttr>>

wattron(pair) ==
    /\ DrawReady
    /\ win' = wattron_op(win, pair)
    /\ lastAttr' = pair
    /\ UNCHANGED <<lifeVars, pairs, edge, nops, lastReg>>

\* wattroff( win, attrs ): whether attrs has to name what is on is up to the backend
wattroff(attrs) ==
    /\ DrawReady
    /\ \/ win' = wattroff_op(win)
       \/ attrs # win.attr /\ win' = win
    /\ lastAttr' = -1
    /\ UNCHANGED <<lifeVars, pairs, edge, nops, lastReg>>

waddch(ch) ==
    /\ CanWrite
    /\ win' = waddch_op(win, ch, pairs, edge)
    /\ nops' = nops + 1
    /\ UNCHANGED <<lifeVars, pairs, edge, lastReg, lastAttr>>

mvwprintw(y, x, fmt, args) ==
    /\ CanWrite
    /\ win' = mvwprintw_fmt(win, y, x, fmt, args, pairs, edge)
    /\ nops' = nops + 1
    /\ UNCHANGED <<lifeVars, pairs, edge, lastReg, lastAttr>>

\* ------------------------------------------------------------ specification
\* window lifetime: every window is requested as 1 x 1 at (0, 0), or out of range
GeometryQueries == {"getmaxy", "getmaxx", "getbegy", "getbegx"}
OneCell == <<1, 1, 0, 0>>
OffScreen == <<1, 1, -1, 0>>

Init ==
    /\ iface = "uninit"
    /\ wstate = [h \in Handles |-> "unalloc"]
    /\ geom = [h \in Handles |-> NoGeom]
    /\ req = [h \in Handles |-> NoArgs]
    /\ owner = [o \in Owners |-> NoOwner]
    /\ pending = NullPtr
    /\ trace = [h \in Handles |-> <<>>]
    /\ runs = [h \in Handles |-> 0]
    /\ ub = FALSE
    /\ disciplined = TRUE
    /\ ret = NoValue
    /\ win = BlankWin
    /\ pairs = [i \in 0..3 |-> DefaultPair]
    /\ edge = "wrap"
    /\ nops = 0
    /\ lastReg = [i \in PairIds |-> <<>>]
    /\ lastAttr = -1

Next ==
    \/ init_interface
    \/ \E a \in {OneCell, OffScreen} : newwin(a[1], a[2], a[3], a[4])
    \/ \E h \in Handles : delwin(h)
    \/ \E h \in Handles : werase(h)
    \/ \E h \in Handles : wrefresh(h)
    \/ \E h \in Handles, q \in GeometryQueries : geometry_query(h, q)
    \/ \E h \in Handles : window_copy(h)
    \/ \E o \in Owners, h \in Handles \cup {NullPtr} : ptr_construct(o, h)
    \/ \E o \in Owners : ptr_scope_exit(o)
    \/ \E o \in Owners : ptr_release(o)
    \/ \E o \in Owners, h \in Handles \cup {NullPtr} : ptr_reset(o, h)
    \/ ptr_reset_finish
    \/ \E s, d \in Owners : ptr_move_construct(s, d)
    \/ \E s, d \in Owners : ptr_move_assign(s, d)

Spec == Init /\ [][Next]_vars

\* drawing: one window covering the display, created by newwin( TermLines, TermCols, 0, 0 )
HpFmt == <<"h", "p", ":", "%d">>
PctFmt == <<"%d", "%%">>
FmtCalls == {<<HpFmt, <<7>>>>, <<PctFmt, <<-12>>>>}
DrawPos == {<<0, WinCols - 2>>, <<2, 4>>}
DrawColors == {<<red, black>>, <<green, blue>>}

InitDraw ==
    /\ iface = "ready"
    /\ wstate = [h \in Handles |-> IF h = 1 THEN "live" ELSE "unalloc"]
    /\ geom = [h \in Handles |-> IF h = 1 THEN newwin_rec(TermLines, TermCols, 0, 0) ELSE NoGeom]
    /\ req = [h \in Handles |-> IF h = 1 THEN <<TermLines, TermCols, 0, 0>> ELSE NoArgs]
    /\ owner = [o \in Owners |-> NoOwner]
    /\ pending = NullPtr
    /\ trace = [h \in Handles |-> <<>>]
    /\ runs = [h \in Handles |-> 0]
    /\ ub = FALSE
    /\ disciplined = TRUE
    /\ ret = NoValue
    /\ win = BlankWin
    /\ pairs = [i \in 0..3 |-> DefaultPair]
    /\ edge \in {"wrap", "clip"}
    /\ nops = 0
    /\ lastReg = [i \in PairIds |-> <<>>]
    /\ lastAttr = -1

NextDraw ==
    \/ \E id \in PairIds, c \in DrawColors : init_pair(id, c[1], c[2])
    \/ \E pos \in DrawPos : wmove(pos[1], pos[2])
    \/ \E id \in PairIds : wattron(id)
    \/ \E a \in PairIds : wattroff(a)
    \/ waddch("x")
    \/ \E pos \in DrawPos, c \in FmtCalls : mvwprintw(pos[1], pos[2], c[1], c[2])

SpecDraw == InitDraw /\ [][NextDraw]_vars

\* window geometry: windows of several sizes and places, and requests off the display
NewwinRequests ==
    {<<1, 1, 0, 0>>, <<TermLines, TermCols, 0, 0>>, <<1, TermCols, TermLines - 1, 0>>,
     <<2, 1, 1, TermCols - 1>>,
     <<0, 1, 0, 0>>, <<1, 0, 0, 0>>, <<1, 1, -1, 0>>, <<1, 1, 0, -1>>,
     <<TermLines + 1, 1, 0, 0>>, <<1, TermCols + 1, 0, 0>>,
     <<2, 1, TermLines - 1, 0>>, <<1, 2, 0, TermCols - 1>>}

NextGeom ==
    \/ init_interface
    \/ \E a \in NewwinRequests : newwin(a[1], a[2], a[3], a[4])
    \/ \E h \in Handles : delwin(h)
    \/ \E h \in Handles, q \in GeometryQueries : geometry_query(h, q)

SpecGeom == Init /\ [][NextGeom]_vars

\* ------------------------------------------------------------------ claims
Teardown == <<"werase", "wrefresh", "delwin">>

Count(seq, op) == Cardinality({i \in DOMAIN seq : seq[i] = op})

BackendUntouched == trace' = trace /\ wstate' = wstate /\ runs' = runs

\* C1: when an owner holding a live window leaves its scope, that window sees
\* exactly werase, wrefresh, delwin appended to its calls, in this order, by one
\* deleter run; it is destroyed, delwin was called on it once, and no other
\* window is touched.
C1_ScopeExitTeardown ==
    [][\A o \in Owners :
         (ptr_scope_exit(o) /\ owner[o].ptr # NullPtr /\ wstate[owner[o].ptr] = "live") =>
            LET h == owner[o].ptr IN
              /\ trace'[h] = trace[h] \o Teardown
              /\ wstate'[h] = "destroyed"
              /\ Count(trace'[h], "delwin") = 1
              /\ runs'[h] = runs[h] + 1
              /\ \A k \in Handles \ {h} : trace'[k] = trace[k] /\ wstate'[k] = wstate[k]]_vars

C1_Witness ==
    \E h \in Handles :
        /\ trace[h] = Teardown /\ wstate[h] = "destroyed" /\ runs[h] = 1
        /\ \A o \in Owners : ~owner[o].inscope
        /\ disciplined /\ ~ub

\* C2 as stated: whatever the owners were constructed over or reset to, no
\* handle has two owners and the deleter runs at most once on a handle.
C2_Original ==
    \A h \in Handles : Cardinality(Holders(h)) <= 1 /\ runs[h] <= 1

\* C2 amended: as long as construction and reset( new_value ) were only given
\* null or a live handle no owner held, no handle has two owners, the deleter
\* has run at most once on a handle, and a handle it has run on has no owner.
C2_Amended ==
    disciplined =>
        \A h \in Handles :
            /\ Cardinality(Holders(h)) <= 1
            /\ runs[h] <= 1
            /\ (runs[h] = 1 => Holders(h) = {} /\ pending # h /\ wstate[h] = "destroyed")

C2_Witness ==
    /\ disciplined
    /\ \E h, k \in Handles, o \in Owners :
         /\ h # k
         /\ runs[h] = 1 /\ trace[h] = Teardown
         /\ Holders(k) = {o} /\ wstate[k] = "live"

\* C3: release() hands back the owned handle, leaves the owner holding null and
\* makes no backend call; an owner holding null leaves its scope without a
\* backend call; and an owner holding null gets a handle again only by a reset
\* or a move assignment into it.
C3_ReleaseDetaches ==
    [][/\ \A o \in Owners :
            ptr_release(o) =>
               /\ ret' = owner[o].ptr
               /\ owner'[o] = [inscope |-> TRUE, ptr |-> NullPtr]
               /\ BackendUntouched
       /\ \A o \in Owners :
            (ptr_scope_exit(o) /\ owner[o].ptr = NullPtr) => BackendUntouched
       /\ \A o \in Owners :
            (owner[o].inscope /\ owner[o].ptr = NullPtr /\ owner'[o].ptr # NullPtr) =>
               \/ \E h \in Handles : ptr_reset(o, h)
               \/ \E s \in Owners : ptr_move_assign(s, o)]_vars

C3_Witness ==
    \E o \in Owners, h \in Handles :
        /\ owner[o] = [inscope |-> TRUE, ptr |-> NullPtr]
        /\ ret = h /\ wstate[h] = "live"
        /\ runs[h] = 0 /\ trace[h] = <<>>
        /\ Holders(h) = {}
        /\ \A k \in Handles \ {h} : wstate[k] = "unalloc"

\* C4 as stated: once reset( new_value ) has made the owner hold new_value, the
\* window it owned before is destroyed already.
C4_Original ==
    pending # NullPtr => wstate[pending] = "destroyed"

\* C4 amended: reset( new_value ) on an owner of a non-null window first makes
\* the owner hold new_value, with no backend call yet, and then runs werase,
\* wrefresh, delwin on the window owned before; when reset is over the owner
\* holds new_value and that window is destroyed.
C4_Amended ==
    [][/\ \A o \in Owners, h \in Handles \cup {NullPtr} :
            (ptr_reset(o, h) /\ owner[o].ptr # NullPtr) =>
               /\ owner'[o] = [inscope |-> TRUE, ptr |-> h]
               /\ pending' = owner[o].ptr
               /\ BackendUntouched
       /\ ptr_reset_finish =>
               /\ trace'[pending] = trace[pending] \o Teardown
               /\ wstate'[pending] = "destroyed"
               /\ runs'[pending] = runs[pending] + 1
               /\ owner' = owner
               /\ pending' = NullPtr]_vars

C4_Witness ==
    /\ pending = NullPtr /\ disciplined /\ ~ub
    /\ \E o \in Owners, h, k \in Handles :
         /\ h # k
         /\ owner[o] = [inscope |-> TRUE, ptr |-> k] /\ wstate[k] = "live"
         /\ wstate[h] = "destroyed" /\ trace[h] = Teardown /\ runs[h] = 1

C6_LiveThenDestroyed ==
    [][\A h \in Handles :
         /\ wstate[h] # "unalloc" => wstate'[h] \in {"live", "destroyed"}
         /\ wstate[h] = "destroyed" => wstate'[h] = "destroyed"
         /\ (wstate[h] = "live" /\ wstate'[h] = "destroyed") =>
               \/ delwin(h)
               \/ \E o \in Owners : ptr_scope_exit(o) /\ owner[o].ptr = h
               \/ ptr_reset_finish /\ pending = h]_vars

C6_Witness ==
    \E h, k \in Handles :
        /\ wstate[h] = "destroyed" /\ trace[h] = <<"delwin">>
        /\ wstate[k] = "destroyed" /\ trace[k] = Teardown

\* the requests the display can hold
WithinDisplay(nlines, ncols, begin_y, begin_x) ==
    /\ 0 < nlines /\ 0 < ncols /\ 0 <= begin_y /\ 0 <= begin_x
    /\ begin_y + nlines - 1 < TermLines
    /\ begin_x + ncols - 1 < TermCols

\* C7: newwin with a request the display can hold yields a non-null window that
\* is live and whose getmaxy, getmaxx, getbegy, getbegx are the nlines, ncols,
\* begin_y, begin_x asked for; later queries on a window answer what it was
\* requested with.
C7_NewwinGeometry ==
    [][/\ \A a \in NewwinRequests :
            (newwin(a[1], a[2], a[3], a[4]) /\ WithinDisplay(a[1], a[2], a[3], a[4])) =>
               /\ ret' # NullPtr
               /\ wstate[ret'] = "unalloc" /\ wstate'[ret'] = "live"
               /\ getmaxy(geom', ret') = a[1]
               /\ getmaxx(geom', ret') = a[2]
               /\ getbegy(geom', ret') = a[3]
               /\ getbegx(geom', ret') = a[4]
       /\ \A h \in Handles :
            /\ geometry_query(h, "getmaxy") => ret' = req[h][1]
            /\ geometry_query(h, "getmaxx") => ret' = req[h][2]
            /\ geometry_query(h, "getbegy") => ret' = req[h][3]
            /\ geometry_query(h, "getbegx") => ret' = req[h][4]]_vars

C7_Witness ==
    \E h \in Handles :
        /\ wstate[h] = "live"
        /\ req[h] = <<1, TermCols, TermLines - 1, 0>>
        /\ ret = TermCols

\* C8: newwin with a request the display cannot hold yields the null window,
\* creates nothing, and returns normally (the interface stays usable).
C8_NewwinOutOfRange ==
    [][\A a \in NewwinRequests :
         (newwin(a[1], a[2], a[3], a[4]) /\ ~WithinDisplay(a[1], a[2], a[3], a[4])) =>
            /\ ret' = NullPtr
            /\ wstate' = wstate /\ geom' = geom
            /\ iface' = "ready"]_vars

C8_Witness ==
    /\ iface = "ready" /\ ret = NullPtr
    /\ wstate[1] = "live" /\ req[1] = <<TermLines, TermCols, 0, 0>>
    /\ FreeHandles # {}

\* C9: mvwprintw( win, y, x, fmt, args... ) leaves the window as moving the
\* cursor to (y, x) and writing the formatted string does; with (2, 4, "hp:%d",
\* 7) that is the window with the cursor moved to (2, 4) and "hp:7" written,
\* the cells (2,4)..(2,7) reading h, p, :, 7.
C9_FormattedMvwprintw ==
    [][/\ \A pos \in DrawPos, c \in FmtCalls :
            mvwprintw(pos[1], pos[2], c[1], c[2]) =>
               win' = wprintw_op(wmove_op(win, pos[1], pos[2]),
                                 string_format(c[1], c[2]), pairs, edge)
       /\ mvwprintw(2, 4, HpFmt, <<7>>) =>
               /\ win' = wprintw_op(wmove_op(win, 2, 4), <<"h", "p", ":", "7">>, pairs, edge)
               /\ win'.cells[<<2, 4>>].ch = "h"
               /\ win'.cells[<<2, 5>>].ch = "p"
               /\ win'.cells[<<2, 6>>].ch = ":"
               /\ win'.cells[<<2, 7>>].ch = "7"]_vars

C9_Witness ==
    /\ win.cells[<<2, 4>>].ch = "h" /\ win.cells[<<2, 5>>].ch = "p"
    /\ win.cells[<<2, 6>>].ch = ":" /\ win.cells[<<2, 7>>].ch = "7"
    /\ nops = 1

\* C10: while the latest attribute call on the window is wattron with a pair
\* that was registered, a character written to the window is tagged with the
\* colours of the latest init_pair call for that pair.
C10_PairColours ==
    [][(lastAttr \in PairIds /\ lastReg[lastAttr] # <<>>) =>
         /\ waddch("x") =>
               win'.cells[<<win.cury, win.curx>>] =
                  [ch |-> "x", fg |-> lastReg[lastAttr][1], bg |-> lastReg[lastAttr][2]]
         /\ \A pos \in DrawPos, c \in FmtCalls :
               mvwprintw(pos[1], pos[2], c[1], c[2]) =>
                  /\ win'.cells[pos].fg = lastReg[lastAttr][1]
                  /\ win'.cells[pos].bg = lastReg[lastAttr][2]]_vars

C10_Witness ==
    /\ lastReg[3] = <<red, black>> /\ lastAttr = 3
    /\ lastReg[1] = <<green, blue>>
    /\ \E pos \in DOMAIN win.cells : win.cells[pos] = [ch |-> "x", fg |-> red, bg |-> black]

====
